---- MODULE Spec2Model ----
(***************************************************************************)
(* Model of the AdHawk python-sdk-examples screen tracking example          *)
(* (src/screen_tracking/screen_tracking_example.py): the TrackingWindow     *)
(* constructor, the GAZE_IN_SCREEN stream handler with its sliding-window   *)
(* average, and the 60 Hz render timer.                                     *)
(*                                                                          *)
(* Python floats are modelled as exact rationals in lowest terms plus NaN.  *)
(* The samples of the model are chosen so that every product               *)
(* extent * coordinate is exactly representable as a double (dyadic        *)
(* coordinates) or rounds to the intended integer (k / extent).            *)
(***************************************************************************)
EXTENDS Integers, Sequences, FiniteSets, TLC

VARIABLES
    pc,            \* position of TrackingWindow.__init__ (next statement group)
    self,          \* the TrackingWindow instance: attribute name -> value
    api,           \* the adhawkapi FrontendApi object held by Frontend
    event,         \* the callback dispatched last, its arguments and its output
    valid_points   \* history: every mapped point appended to _point_deque, in order

vars == <<pc, self, api, event, valid_points>>

----------------------------------------------------------------------------
(* Program constants *)

GAZE_MARKER_SIZE == 20

NUM_POINTS == 10

\* camera_gaze_example.py: diameter in pixels of the gaze marker
MARKER_SIZE == 20

(* Bounds of the model *)

\* Valid samples delivered in one run of Spec.
MaxPushes == 11

\* Valid samples delivered in one run of SpecScripted.
MaxScript == 12

\* Valid samples delivered in one run of SpecCadence.
MaxCadence == 3

\* Requests of one kind that await their response at the same time.
MaxPending == 2

\* Largest value P of the step script (N pushes of (0,0), then (P,P)).
MaxStep == 3

----------------------------------------------------------------------------
(* Python float and int arithmetic *)

Abs(a) == IF a < 0 THEN -a ELSE a

RECURSIVE Gcd(_, _)
Gcd(a, b) == IF b = 0 THEN a ELSE Gcd(b, a % b)

\* The float n/d (d > 0), in lowest terms.
Float(n, d) ==
    LET g == Gcd(Abs(n), d)
    IN  [nan |-> FALSE, num |-> n \div g, den |-> d \div g]

NaN == [nan |-> TRUE, num |-> 0, den |-> 1]

isnan(f) == f.nan

\* int * float
mul(i, f) == IF f.nan THEN NaN ELSE Float(i * f.num, f.den)

\* float - float
sub(f, g) ==
    IF f.nan \/ g.nan THEN NaN
    ELSE Float(f.num * g.den - g.num * f.den, f.den * g.den)

\* int / int, Python's true division (b > 0 here: the length of a non-empty deque)
truediv(a, b) == Float(a, b)

\* Python 3 round(float) -> int: to the nearest integer, ties to the even one.
round(f) ==
    LET q == f.num \div f.den
        r == f.num % f.den
    IN  IF 2 * r < f.den THEN q
        ELSE IF 2 * r > f.den THEN q + 1
        ELSE IF q % 2 = 0 THEN q ELSE q + 1

----------------------------------------------------------------------------
(* The environment: the primary screen and the gaze stream *)

\* Pixel geometry of the primary screen (Qt), <<width, height>>.
Screens == {<<1920, 1080>>, <<1280, 720>>}

\* GAZE_IN_SCREEN samples <<xpos, ypos>>: the centre of the screen, a sample
\* outside [0, 1] on both axes whose products are ties (x.5), and samples
\* with a NaN coordinate.
Samples ==
    { <<Float(1, 2), Float(1, 2)>>,
      <<Float(-3, 256), Float(19, 16)>>,
      <<NaN, Float(1, 2)>>,
      <<Float(1, 2), NaN>>,
      <<NaN, NaN>> }

\* cb: the callback; xpos, ypos: the coordinates of a gaze sample; arg: the
\* error of a response, the type of an event or the buffer of a video frame;
\* error: the exception raised; draw: what _every_frame painted; calls: the
\* api requests and window calls the callback made, in order.
NoEvent ==
    [cb |-> "none", xpos |-> NaN, ypos |-> NaN, arg |-> "", error |-> "",
     draw |-> <<>>, calls |-> <<>>]


\* The circle _every_frame paints: QRectF(x, y, w, h) handed to drawEllipse.
QRectF(x, y, w, h) == [x |-> x, y |-> y, w |-> w, h |-> h]

----------------------------------------------------------------------------
(* TrackingWindow.__init__ *)

\* Variant: the Frontend is created (handlers registered, api started) before
\* the board and the smoother fields are set up.
CtorOrderFrontendFirst == <<"frontend", "board", "smoother", "timer">>

\* The statement groups of __init__ that follow the member set-up, in the
\* order the constructor executes them.
CtorOrder == <<"board", "smoother", "frontend", "timer">>

Constructed == pc > Len(CtorOrder)

AtStage(stage) == pc \in 1..Len(CtorOrder) /\ CtorOrder[pc] = stage

\* The FrontendApi object before Frontend.__init__: no handler registered, not
\* started, no request awaiting its response, no video stream, no
\* GAZE_IN_IMAGE sample delivered.
NoApi ==
    [handlers |-> {}, started |-> FALSE, stopped |-> FALSE,
     pending |-> [start_camera_capture |-> 0, register_screen_board |-> 0],
     video_stream |-> FALSE, gaze_in_image |-> <<>>]

\* Lines 153-180: the screen geometry is read and the empty deque is created.
Init ==
    /\ pc = 1
    /\ \E screen \in Screens :
           self = [__class__ |-> "TrackingWindow",
                   _screen_size |-> screen, _point_deque |-> <<>>]
    /\ api = NoApi
    /\ event = NoEvent
    /\ valid_points = <<>>

\* Lines 182-228: the board image has the size of the screen; the base pixmap
\* made from it gives _width and _height; the window is shown full screen.
TrackingWindow_init_board ==
    /\ AtStage("board")
    /\ self' = self @@ [_base_pixmap |-> <<>>,
                        _width |-> self._screen_size[1],
                        _height |-> self._screen_size[2],
                        windowState |-> "FullScreen"]
    /\ pc' = pc + 1
    /\ event' = [NoEvent EXCEPT !.cb = "__init__"]
    /\ UNCHANGED <<api, valid_points>>

\* Lines 230-234.
TrackingWindow_init_smoother ==
    /\ AtStage("smoother")
    /\ self' = self @@ [_running_xcoord |-> 0, _running_ycoord |-> 0,
                        _xcoord |-> Float(0, 1), _ycoord |-> Float(0, 1)]
    /\ pc' = pc + 1
    /\ event' = [NoEvent EXCEPT !.cb = "__init__"]
    /\ UNCHANGED <<api, valid_points>>

\* Line 237 with Frontend.__init__ (lines 31-51): both stream handlers are
\* registered, then the api is started.
Frontend_init ==
    /\ AtStage("frontend")
    /\ api' = [api EXCEPT !.handlers = @ \cup {"GAZE_IN_SCREEN", "EVENTS"},
                          !.started = TRUE]
    /\ self' = self @@ [frontend |-> "Frontend"]
    /\ pc' = pc + 1
    /\ event' = [NoEvent EXCEPT !.cb = "__init__"]
    /\ UNCHANGED valid_points

\* Line 240 with _setup_video_timer (lines 242-246).
_setup_video_timer ==
    /\ AtStage("timer")
    /\ self' = self @@ [_imagetimer_interval |-> Float(1000, 60),
                        _imagetimer |-> "active"]
    /\ pc' = pc + 1
    /\ event' = [NoEvent EXCEPT !.cb = "__init__"]
    /\ UNCHANGED <<api, valid_points>>

----------------------------------------------------------------------------
(* TrackingWindow._handle_gaze_in_screen_stream *)

\* Variant: "and" in place of "or".
IsDroppedBoth(xpos, ypos) == isnan(xpos) /\ isnan(ypos)

\* Line 250: the sample is dropped when either coordinate is NaN.
IsDropped(xpos, ypos) == isnan(xpos) \/ isnan(ypos)

\* Variant: the pixel position is clamped to the surface.
MapToScreenClamped(extent, pos) ==
    LET p == round(mul(extent, pos))
    IN  IF p < 0 THEN 0 ELSE IF p > extent THEN extent ELSE p

\* Lines 254-255: a normalized coordinate to a pixel position.
MapToScreen(extent, pos) == round(mul(extent, pos))

\* Variant: pop() in place of popleft(): the newest point is removed.
PushPointPopRight(deque, point) ==
    LET appended == Append(deque, point)
    IN  IF Len(appended) > NUM_POINTS
        THEN [deque |-> deque, old |-> point]
        ELSE [deque |-> appended, old |-> <<0, 0>>]

\* Variant: ">=" in place of ">": the deque never holds NUM_POINTS points.
PushPointEvictAtCapacity(deque, point) ==
    LET appended == Append(deque, point)
    IN  IF Len(appended) >= NUM_POINTS
        THEN [deque |-> Tail(appended), old |-> Head(appended)]
        ELSE [deque |-> appended, old |-> <<0, 0>>]

\* Lines 261-263: append, then popleft when the deque exceeds NUM_POINTS.
\* old is the evicted point, (0, 0) when nothing is evicted (lines 259-260).
PushPoint(deque, point) ==
    LET appended == Append(deque, point)
    IN  IF Len(appended) > NUM_POINTS
        THEN [deque |-> Tail(appended), old |-> Head(appended)]
        ELSE [deque |-> appended, old |-> <<0, 0>>]

\* Variant: the evicted point is not subtracted.
UpdateRunningNoEvict(running, new, old) == running + new

\* Lines 266-267.
UpdateRunning(running, new, old) == running + new - old

\* Variant: the divisor is the capacity.
AverageOverCapacity(running, deque) == truediv(running, NUM_POINTS)

\* Lines 269-270.
Average(running, deque) == truediv(running, Len(deque))

\* The attributes the handler reads; reading a missing one raises.
HandlerAttrs ==
    {"_width", "_height", "_point_deque", "_running_xcoord", "_running_ycoord"}

\* Variant: the handler is cut off after line 261 (the append), as a render
\* running between the handler's statements would see it.
_handle_gaze_in_screen_stream_cut(xpos, ypos) ==
    /\ event' = [NoEvent EXCEPT !.cb = "_handle_gaze_in_screen_stream",
                                !.xpos = xpos, !.ypos = ypos]
    /\ IF IsDropped(xpos, ypos) \/ ~(HandlerAttrs \subseteq DOMAIN self)
       THEN UNCHANGED <<self, valid_points>>
       ELSE LET point == <<MapToScreen(self._width, xpos),
                           MapToScreen(self._height, ypos)>>
            IN  /\ self' = [self EXCEPT !._point_deque = Append(@, point)]
                /\ valid_points' = Append(valid_points, point)

_handle_gaze_in_screen_stream(xpos, ypos) ==
    LET ev == [NoEvent EXCEPT !.cb = "_handle_gaze_in_screen_stream",
                              !.xpos = xpos, !.ypos = ypos]
    IN
    IF IsDropped(xpos, ypos)
    THEN /\ event' = ev
         /\ UNCHANGED <<self, valid_points>>
    ELSE IF ~(HandlerAttrs \subseteq DOMAIN self)
    THEN /\ event' = [ev EXCEPT !.error = "AttributeError"]
         /\ UNCHANGED <<self, valid_points>>
    ELSE IF isnan(mul(self._width, xpos)) \/ isnan(mul(self._height, ypos))
    THEN \* round(nan) raises
         /\ event' = [ev EXCEPT !.error = "ValueError"]
         /\ UNCHANGED <<self, valid_points>>
    ELSE LET new_xcoord == MapToScreen(self._width, xpos)
             new_ycoord == MapToScreen(self._height, ypos)
             pushed == PushPoint(self._point_deque, <<new_xcoord, new_ycoord>>)
             running_x == UpdateRunning(self._running_xcoord, new_xcoord, pushed.old[1])
             running_y == UpdateRunning(self._running_ycoord, new_ycoord, pushed.old[2])
         IN  /\ self' = [self EXCEPT
                            !._point_deque = pushed.deque,
                            !._running_xcoord = running_x,
                            !._running_ycoord = running_y,
                            !._xcoord = Average(running_x, pushed.deque),
                            !._ycoord = Average(running_y, pushed.deque)]
             /\ valid_points' = Append(valid_points, <<new_xcoord, new_ycoord>>)
             /\ event' = ev

\* The api delivers one GAZE_IN_SCREEN sample of S to the registered handler.
\* At most max valid samples are delivered in one run.
DeliverGaze(S, max) ==
    /\ api.started
    /\ "GAZE_IN_SCREEN" \in api.handlers
    /\ \E s \in S :
          /\ IsDropped(s[1], s[2]) \/ Len(valid_points) < max
          /\ _handle_gaze_in_screen_stream(s[1], s[2])
    /\ UNCHANGED <<pc, api>>

GazeInScreenStream == DeliverGaze(Samples, MaxPushes)

----------------------------------------------------------------------------
(* TrackingWindow._every_frame *)

\* Variant: the render writes the rounded position back.
_every_frame_rounding ==
    /\ event' = [NoEvent EXCEPT
                   !.cb = "_every_frame",
                   !.draw = Append(self._base_pixmap,
                                   QRectF(sub(self._xcoord, Float(GAZE_MARKER_SIZE, 2)),
                                          sub(self._ycoord, Float(GAZE_MARKER_SIZE, 2)),
                                          GAZE_MARKER_SIZE, GAZE_MARKER_SIZE))]
    /\ self' = [self EXCEPT !._xcoord = Float(round(@), 1),
                            !._ycoord = Float(round(@), 1)]
    /\ UNCHANGED <<pc, api, valid_points>>

\* Lines 273-286: a copy of the base pixmap with the marker painted on it
\* becomes the pixmap of the background widget.
_every_frame ==
    /\ event' = [NoEvent EXCEPT
                   !.cb = "_every_frame",
                   !.draw = Append(self._base_pixmap,
                                   QRectF(sub(self._xcoord, Float(GAZE_MARKER_SIZE, 2)),
                                          sub(self._ycoord, Float(GAZE_MARKER_SIZE, 2)),
                                          GAZE_MARKER_SIZE, GAZE_MARKER_SIZE))]
    /\ UNCHANGED <<pc, self, api, valid_points>>

\* Variant: the render is driven by the samples: it runs only when a callback
\* other than a render ran since the last render.
VideoTimerOnNewSample ==
    /\ Constructed
    /\ "_imagetimer" \in DOMAIN self
    /\ event.cb # "_every_frame"
    /\ _every_frame

\* The QTimer started by _setup_video_timer times out in the Qt event loop,
\* which runs once the constructor has returned (main, lines 367-369).
VideoTimerTimeout ==
    /\ Constructed
    /\ "_imagetimer" \in DOMAIN self
    /\ _every_frame

----------------------------------------------------------------------------

Next ==
    \/ TrackingWindow_init_board
    \/ TrackingWindow_init_smoother
    \/ Frontend_init
    \/ _setup_video_timer
    \/ GazeInScreenStream
    \/ VideoTimerTimeout

Spec == Init /\ [][Next]_vars

----------------------------------------------------------------------------
(* The scripted streams of the specification's test scenarios *)

\* <<(1,1), (2,2), ..., (k,k)>>
Ramp(k) == [i \in 1..k |-> <<i, i>>]

\* k times (0,0)
Zeros(k) == [i \in 1..k |-> <<0, 0>>]

\* The sample that maps to the point (v, v) on the screen of this window.
SampleFor(v) == <<Float(v, self._width), Float(v, self._height)>>

\* The next sample of a scripted stream, given the points delivered so far:
\* the ramp (1,1), (2,2), ... continues, and NUM_POINTS times (0,0) are
\* followed by one (P, P).
ScriptSamples ==
    IF ~({"_width", "_height"} \subseteq DOMAIN self) THEN {}
    ELSE LET k == Len(valid_points)
         IN  (IF valid_points = Ramp(k) THEN {SampleFor(k + 1)} ELSE {})
             \cup (IF valid_points = Zeros(k) /\ k < NUM_POINTS
                   THEN {SampleFor(0)} ELSE {})
             \cup (IF valid_points = Zeros(NUM_POINTS)
                   THEN {SampleFor(P) : P \in 1..MaxStep} ELSE {})

ScriptedGazeInScreenStream == DeliverGaze(ScriptSamples, MaxScript)

\* Samples with a NaN coordinate may arrive anywhere in a scripted stream.
NaNGazeInScreenStream ==
    DeliverGaze({s \in Samples : IsDropped(s[1], s[2])}, MaxScript)

NextScripted ==
    \/ TrackingWindow_init_board
    \/ TrackingWindow_init_smoother
    \/ Frontend_init
    \/ _setup_video_timer
    \/ ScriptedGazeInScreenStream
    \/ NaNGazeInScreenStream
    \/ VideoTimerTimeout

SpecScripted == Init /\ [][NextScripted]_vars

----------------------------------------------------------------------------
(* The Frontend of the screen tracking example and the window's callbacks *)

\* The error argument of a response: the handlers read its truth value only.
Errors == {"", "error"}

\* The event types of the EVENTS stream.
EventTypes == {"PROCEDURE_STARTED", "PROCEDURE_ENDED"}

\* if error:
Truthy(error) == error # ""

RECURSIVE Count(_, _)
Count(calls, name) ==
    IF calls = <<>> THEN 0
    ELSE (IF Head(calls) = name THEN 1 ELSE 0) + Count(Tail(calls), name)

\* The api after the requests among calls: a request with a real callback
\* awaits its response, the video stream is switched, shutdown stops the api.
Requested(a, calls) ==
    [a EXCEPT
       !.pending = [r \in DOMAIN @ |-> @[r] + Count(calls, r)],
       !.video_stream = IF Count(calls, "stop_video_stream") > 0 THEN FALSE
                        ELSE IF Count(calls, "start_video_stream") > 0 THEN TRUE
                        ELSE @,
       !.stopped = @ \/ Count(calls, "shutdown") > 0]

\* The window after the show calls among calls.
RECURSIVE Shown(_, _)
Shown(window, calls) ==
    IF calls = <<>> THEN window
    ELSE Shown(IF Head(calls) = "showMinimized"
                 THEN [window EXCEPT !.windowState = "Minimized"]
               ELSE IF Head(calls) = "showFullScreen"
                 THEN [window EXCEPT !.windowState = "FullScreen"]
               ELSE window,
               Tail(calls))

\* No kind of request has more than MaxPending responses outstanding.
WithinPending(a) == \A r \in DOMAIN a.pending : a.pending[r] <= MaxPending

\* The response of one request r is delivered.
Answered(a, r) == [a EXCEPT !.pending[r] = @ - 1]

\* The callback cb runs with argument arg on the window object and the api
\* state a, and makes calls.
Dispatch(cb, arg, window, a, calls) ==
    /\ WithinPending(Requested(a, calls))
    /\ event' = [NoEvent EXCEPT !.cb = cb, !.arg = arg, !.calls = calls]
    /\ self' = Shown(window, calls)
    /\ api' = Requested(a, calls)

\* The process runs: pc = 0 stands for the process having exited.
Running == pc # 0

\* The api calls back: it is started and not shut down.
ApiRuns == api.started /\ ~api.stopped

IsTrackingWindow == self.__class__ = "TrackingWindow"

\* Lines 93-102.
enable_screen_tracking(enable) ==
    IF enable THEN <<"start_screen_tracking">> ELSE <<"stop_screen_tracking">>

\* Variant: the api is shut down before the stop requests.
Frontend_shutdown_first ==
    <<"shutdown">> \o enable_screen_tracking(FALSE)
        \o <<"stop_camera_capture", "stop_log_session">>

\* Lines 53-67.
Frontend_shutdown ==
    enable_screen_tracking(FALSE)
        \o <<"stop_camera_capture", "stop_log_session", "shutdown">>

\* Lines 69-74.
Frontend_quickstart == <<"quick_start_gui">>

\* Lines 76-83.
Frontend_calibrate == <<"start_calibration_gui">>

\* Lines 85-91.
register_screen == <<"register_screen_board">>

\* Lines 356-357.
_handle_prodcedure_complete == <<"showFullScreen">>

\* Variant: every event re-enables screen tracking.
_handle_event_stream_any(event_type) ==
    enable_screen_tracking(TRUE) \o _handle_prodcedure_complete

\* Lines 104-112.
_handle_event_stream(event_type) ==
    IF event_type = "PROCEDURE_ENDED"
    THEN enable_screen_tracking(TRUE) \o _handle_prodcedure_complete
    ELSE <<>>

\* Variant: the error is not looked at.
_handle_connect_response_unchecked(error) ==
    <<"set_stream_control", "set_event_control", "start_camera_capture",
      "start_log_session">>

\* Lines 114-133.
_handle_connect_response(error) ==
    IF ~Truthy(error)
    THEN <<"set_stream_control", "set_event_control", "start_camera_capture",
           "start_log_session">>
    ELSE <<>>

\* Variant: the test is inverted.
_handle_screen_registered_response_inverted(error) ==
    IF Truthy(error) THEN enable_screen_tracking(TRUE) ELSE <<>>

\* Lines 136-142.
_handle_screen_registered_response(error) ==
    IF ~Truthy(error) THEN enable_screen_tracking(TRUE) ELSE <<>>

\* Lines 288-295.
_handle_camera_start_response(error) ==
    IF ~Truthy(error) THEN register_screen ELSE <<>>

\* Lines 344-348.
_calibrate ==
    <<"showMinimized">> \o enable_screen_tracking(FALSE) \o Frontend_calibrate

\* Lines 350-354.
_quickstart ==
    <<"showMinimized">> \o enable_screen_tracking(FALSE) \o Frontend_quickstart

\* Lines 359-362.
closeEvent == Frontend_shutdown

\* The api reports the backend connection (connect_cb, line 51).
ConnectResponse ==
    /\ Running /\ IsTrackingWindow /\ ApiRuns
    /\ \E error \in Errors :
          Dispatch("_handle_connect_response", error, self, api,
                   _handle_connect_response(error))
    /\ UNCHANGED <<pc, valid_points>>

\* The response to a start_camera_capture request (callback of line 130).
CameraStartResponse ==
    /\ Running /\ IsTrackingWindow /\ ApiRuns
    /\ api.pending.start_camera_capture > 0
    /\ \E error \in Errors :
          Dispatch("_handle_camera_start_response", error, self,
                   Answered(api, "start_camera_capture"),
                   _handle_camera_start_response(error))
    /\ UNCHANGED <<pc, valid_points>>

\* The response to a register_screen_board request (callback of line 91).
ScreenRegisteredResponse ==
    /\ Running /\ IsTrackingWindow /\ ApiRuns
    /\ api.pending.register_screen_board > 0
    /\ \E error \in Errors :
          Dispatch("_handle_screen_registered_response", error, self,
                   Answered(api, "register_screen_board"),
                   _handle_screen_registered_response(error))
    /\ UNCHANGED <<pc, valid_points>>

\* The api delivers an event to the handler registered at line 47.
EventStream ==
    /\ Running /\ IsTrackingWindow /\ ApiRuns
    /\ "EVENTS" \in api.handlers
    /\ \E event_type \in EventTypes :
          Dispatch("_handle_event_stream", event_type, self, api,
                   _handle_event_stream(event_type))
    /\ UNCHANGED <<pc, valid_points>>

\* The shortcut 'q' (lines 214-215), in the Qt event loop.
QuickstartShortcut ==
    /\ Constructed /\ IsTrackingWindow
    /\ Dispatch("_quickstart", "", self, api, _quickstart)
    /\ UNCHANGED <<pc, valid_points>>

\* The shortcut 'c' (lines 219-220), in the Qt event loop.
CalibrateShortcut ==
    /\ Constructed /\ IsTrackingWindow
    /\ Dispatch("_calibrate", "", self, api, _calibrate)
    /\ UNCHANGED <<pc, valid_points>>

\* The window is closed (Escape, lines 222-223): closeEvent runs, the event
\* loop ends and main exits (line 369).
WindowClosed ==
    /\ Constructed /\ IsTrackingWindow
    /\ Dispatch("closeEvent", "", self, api, closeEvent)
    /\ pc' = 0
    /\ UNCHANGED valid_points

----------------------------------------------------------------------------
(* The camera gaze example: src/camera_gaze/camera_gaze_example.py *)

\* GAZE_IN_IMAGE samples <<gaze_img_x, gaze_img_y>>, in pixels of the image.
ImageSamples ==
    { <<Float(320, 1), Float(961, 4)>>,
      <<Float(5, 2), Float(100, 1)>>,
      <<NaN, Float(100, 1)>>,
      <<Float(320, 1), NaN>>,
      <<NaN, NaN>> }

\* The video frames the receiver gets: a JPEG buffer and the size it decodes to.
Frames ==
    { [image_buf |-> "jpeg_a", size |-> <<640, 480>>],
      [image_buf |-> "jpeg_b", size |-> <<1280, 720>>] }

IsGazeViewer == self.__class__ = "GazeViewer"

\* The state after GazeViewer.__init__ (lines 102-138) with Frontend.__init__
\* (lines 25-40): the handler is registered, the api is started, the frontend
\* is not connected, the gaze coordinates are the dummy (0, 0).
InitGazeViewer ==
    /\ pc = Len(CtorOrder) + 1
    /\ self = [__class__ |-> "GazeViewer",
               _gaze_coordinates |-> <<Float(0, 1), Float(0, 1)>>,
               image_label |-> [size |-> <<0, 0>>,
                                pixmap |-> [image_buf |-> "", ellipses |-> <<>>]],
               frontend |-> [connected |-> FALSE]]
    /\ api = [NoApi EXCEPT !.handlers = {"GAZE_IN_IMAGE"}, !.started = TRUE]
    /\ event = NoEvent
    /\ valid_points = <<>>

\* Frontend.shutdown, lines 42-52.
camera_gaze_shutdown ==
    <<"stop_video_stream", "stop_camera_capture", "shutdown">>

\* Frontend.quickstart, lines 54-59.
camera_gaze_quickstart == <<"quick_start_gui">>

\* Frontend.calibrate, lines 61-68.
camera_gaze_calibrate == <<"start_calibration_gui">>

\* Frontend._handle_connect_response, lines 70-84: the calls it makes.
camera_gaze_handle_connect_response(error) ==
    IF ~Truthy(error)
    THEN <<"set_stream_control", "start_camera_capture">>
    ELSE <<>>

\* Variant: the video stream is started whatever the response.
camera_gaze_handle_camera_start_response_always(error) ==
    IF Truthy(error)
    THEN camera_gaze_shutdown \o <<"start_video_stream">>
    ELSE <<"start_video_stream">>

\* Frontend._handle_camera_start_response, lines 86-96: the calls it makes.
camera_gaze_handle_camera_start_response(error) ==
    IF Truthy(error)
    THEN camera_gaze_shutdown
    ELSE <<"start_video_stream">>

\* GazeViewer._handle_gaze_in_image_stream, lines 181-185: the new value of
\* _gaze_coordinates.
_handle_gaze_in_image_stream(coordinates, gaze_img_x, gaze_img_y) ==
    <<gaze_img_x, gaze_img_y>>

\* Variant: only the x coordinate is tested.
_draw_gaze_marker_x_only(coordinates) ==
    IF isnan(coordinates[1])
    THEN <<>>
    ELSE <<QRectF(sub(coordinates[1], Float(MARKER_SIZE, 2)),
                  sub(coordinates[2], Float(MARKER_SIZE, 2)),
                  MARKER_SIZE, MARKER_SIZE)>>

\* GazeViewer._draw_gaze_marker, lines 187-198: the ellipses painted on the
\* frame image.
_draw_gaze_marker(coordinates) ==
    IF isnan(coordinates[1]) \/ isnan(coordinates[2])
    THEN <<>>
    ELSE <<QRectF(sub(coordinates[1], Float(MARKER_SIZE, 2)),
                  sub(coordinates[2], Float(MARKER_SIZE, 2)),
                  MARKER_SIZE, MARKER_SIZE)>>

\* GazeViewer._handle_video_stream, lines 162-179: the image label after the
\* frame: resized to the frame (lines 169-173), showing the frame with the
\* marker painted on it.
_handle_video_stream(frame, coordinates) ==
    [size |-> frame.size,
     pixmap |-> [image_buf |-> frame.image_buf,
                 ellipses |-> _draw_gaze_marker(coordinates)]]

\* The api reports the backend connection (connect_cb, line 34).
GazeViewerConnectResponse ==
    /\ Running /\ IsGazeViewer /\ ApiRuns
    /\ \E error \in Errors :
          Dispatch("_handle_connect_response", error,
                   IF Truthy(error) THEN self
                   ELSE [self EXCEPT !.frontend.connected = TRUE],
                   api, camera_gaze_handle_connect_response(error))
    /\ UNCHANGED <<pc, valid_points>>

\* The response to a start_camera_capture request (callback of line 81). On
\* an error sys.exit() follows the shutdown (line 93): SystemExit ends the
\* process when the callback runs on the main thread and only the calling
\* thread otherwise; which thread the api calls back on is not in the source.
GazeViewerCameraStartResponse ==
    /\ Running /\ IsGazeViewer /\ ApiRuns
    /\ api.pending.start_camera_capture > 0
    /\ \E error \in Errors :
          LET calls == camera_gaze_handle_camera_start_response(error)
              a == Requested(Answered(api, "start_camera_capture"), calls)
          IN  /\ WithinPending(a)
              /\ api' = a
              /\ event' = [NoEvent EXCEPT
                             !.cb = "_handle_camera_start_response",
                             !.arg = error, !.calls = calls,
                             !.error = IF Truthy(error) THEN "SystemExit" ELSE ""]
              /\ pc' \in IF Truthy(error) THEN {0, pc} ELSE {pc}
    /\ UNCHANGED <<self, valid_points>>

\* The api delivers one GAZE_IN_IMAGE sample to the handler (line 30).
GazeInImageStream ==
    /\ Running /\ IsGazeViewer /\ ApiRuns
    /\ "GAZE_IN_IMAGE" \in api.handlers
    /\ \E s \in ImageSamples :
          /\ self' = [self EXCEPT !._gaze_coordinates =
                         _handle_gaze_in_image_stream(@, s[1], s[2])]
          /\ api' = [api EXCEPT !.gaze_in_image = <<s>>]
          /\ event' = [NoEvent EXCEPT !.cb = "_handle_gaze_in_image_stream",
                                      !.xpos = s[1], !.ypos = s[2]]
    /\ UNCHANGED <<pc, valid_points>>

\* The video receiver gets a frame while the video stream is on (line 130).
VideoFrameReceived ==
    /\ Running /\ IsGazeViewer
    /\ api.video_stream
    /\ \E frame \in Frames :
          /\ self' = [self EXCEPT !.image_label =
                         _handle_video_stream(frame, self._gaze_coordinates)]
          /\ event' = [NoEvent EXCEPT !.cb = "_handle_video_stream",
                                      !.arg = frame.image_buf]
    /\ UNCHANGED <<pc, api, valid_points>>

\* The shortcut 'q' (lines 120-121, 154-156), once main shows the window.
GazeViewerQuickstartShortcut ==
    /\ Running /\ IsGazeViewer
    /\ self.frontend.connected
    /\ Dispatch("quickstart", "", self, api, camera_gaze_quickstart)
    /\ UNCHANGED <<pc, valid_points>>

\* The shortcut 'c' (lines 125-126, 158-160).
GazeViewerCalibrateShortcut ==
    /\ Running /\ IsGazeViewer
    /\ self.frontend.connected
    /\ Dispatch("calibrate", "", self, api, camera_gaze_calibrate)
    /\ UNCHANGED <<pc, valid_points>>

\* The window is closed (closeEvent, lines 140-147). Closed from the event
\* loop the program ends; closed by main on a KeyboardInterrupt (lines
\* 209-214) the window is shown again and the event loop starts.
GazeViewerClosed ==
    /\ Running /\ IsGazeViewer
    /\ Dispatch("closeEvent", "", self, api, camera_gaze_shutdown)
    /\ pc' \in {0, pc}
    /\ UNCHANGED valid_points

----------------------------------------------------------------------------
(* Both examples: the constructor of the tracking window, the responses,
   events, shortcuts and streams of the two frontends. A run is one of the two
   programs. *)

InitExamples == Init \/ InitGazeViewer

NextExamples ==
    \/ TrackingWindow_init_board
    \/ TrackingWindow_init_smoother
    \/ Frontend_init
    \/ _setup_video_timer
    \/ ConnectResponse
    \/ CameraStartResponse
    \/ ScreenRegisteredResponse
    \/ EventStream
    \/ QuickstartShortcut
    \/ CalibrateShortcut
    \/ WindowClosed
    \/ GazeViewerConnectResponse
    \/ GazeViewerCameraStartResponse
    \/ GazeInImageStream
    \/ VideoFrameReceived
    \/ GazeViewerQuickstartShortcut
    \/ GazeViewerCalibrateShortcut
    \/ GazeViewerClosed

SpecExamples == InitExamples /\ [][NextExamples]_vars

----------------------------------------------------------------------------
(* Properties *)

RECURSIVE SumX(_)
SumX(points) == IF points = <<>> THEN 0 ELSE Head(points)[1] + SumX(Tail(points))

RECURSIVE SumY(_)
SumY(points) == IF points = <<>> THEN 0 ELSE Head(points)[2] + SumY(Tail(points))

Min(a, b) == IF a < b THEN a ELSE b

\* The last n elements of seq (all of it when it is shorter).
LastN(seq, n) == SubSeq(seq, Len(seq) - Min(Len(seq), n) + 1, Len(seq))

\* The float f equals the quotient a / b (b > 0).
IsQuotient(f, a, b) == ~f.nan /\ f.num * b = a * f.den

SmootherAttrs ==
    {"_point_deque", "_running_xcoord", "_running_ycoord", "_xcoord", "_ycoord"}

SmootherReady == SmootherAttrs \subseteq DOMAIN self

Smoother ==
    <<self._point_deque, self._running_xcoord, self._running_ycoord,
      self._xcoord, self._ycoord>>

GazeEvent == event.cb = "_handle_gaze_in_screen_stream"

FrameEvent == event.cb = "_every_frame"

ValidGazeEvent == GazeEvent /\ ~event.xpos.nan /\ ~event.ypos.nan

NaNGazeEvent == GazeEvent /\ (event.xpos.nan \/ event.ypos.nan)

\* The deque holds two different points.
MixedWindow ==
    \E i, j \in 1..Len(self._point_deque) :
        self._point_deque[i] # self._point_deque[j]

\* C1: in every state the running sums equal the sums of the x and of the y
\* components of the points held in _point_deque.
C1_RunningSumsMatchWindow ==
    SmootherReady =>
        /\ self._running_xcoord = SumX(self._point_deque)
        /\ self._running_ycoord = SumY(self._point_deque)

\* C1 witness: points have been evicted from a window of different points.
C1_Witness ==
    /\ SmootherReady
    /\ Len(valid_points) > NUM_POINTS
    /\ MixedWindow
    /\ valid_points[1] # valid_points[Len(valid_points)]
    /\ self._running_xcoord # 0

\* C2: the window never holds more than NUM_POINTS points, and it holds the
\* most recent valid points in arrival order: a push onto a full window
\* removes exactly the oldest point.
C2_WindowIsLastPoints ==
    SmootherReady =>
        /\ Len(self._point_deque) <= NUM_POINTS
        /\ self._point_deque = LastN(valid_points, NUM_POINTS)

\* C2 witness: a full window has taken one more point, different from the
\* evicted one.
C2_Witness ==
    /\ SmootherReady
    /\ ValidGazeEvent
    /\ Len(valid_points) = NUM_POINTS + 1
    /\ Len(self._point_deque) = NUM_POINTS
    /\ valid_points[1] # valid_points[2]
    /\ valid_points[1] # valid_points[NUM_POINTS + 1]

\* C3: once a valid point has been pushed, the smoothed position is the
\* running sum over the current window length on both axes; during the first
\* NUM_POINTS - 1 pushes that length is the number of pushes.
C3_SmoothedIsSumOverLength ==
    (SmootherReady /\ Len(valid_points) >= 1) =>
        /\ Len(self._point_deque) >= 1
        /\ IsQuotient(self._xcoord, self._running_xcoord, Len(self._point_deque))
        /\ IsQuotient(self._ycoord, self._running_ycoord, Len(self._point_deque))
        /\ Len(valid_points) < NUM_POINTS =>
               Len(self._point_deque) = Len(valid_points)

\* C3 witness: three pushes, the average is over three points and is not the
\* sum over NUM_POINTS.
C3_Witness ==
    /\ SmootherReady
    /\ ValidGazeEvent
    /\ Len(valid_points) = 3
    /\ self._running_xcoord # 0
    /\ self._xcoord = truediv(self._running_xcoord, 3)

\* C4: a sample with a NaN coordinate changes nothing of the window object
\* and raises no error.
C4_NaNSampleDropped ==
    [][ NaNGazeEvent' =>
          /\ self' = self
          /\ valid_points' = valid_points
          /\ event'.error = "" ]_vars

\* C4 witness: a NaN sample has been handled on a window that holds points.
C4_Witness ==
    /\ SmootherReady
    /\ NaNGazeEvent
    /\ event.error = ""
    /\ Len(self._point_deque) >= 2

\* C5: a render on an empty window draws no marker: the pixmap it sets is the
\* base pixmap.
C5_NoDrawOnEmptyWindow ==
    (FrameEvent /\ self._point_deque = <<>>) => event.draw = self._base_pixmap

\* C6: after k >= 1 valid points the smoothed position is the arithmetic mean
\* of the last min(k, NUM_POINTS) points on each axis; after the ramp
\* (1,1)..(12,12) the window holds (3,3)..(12,12) and the position is
\* (7.5, 7.5); after NUM_POINTS times (0,0) and one (P,P) the position is
\* P / NUM_POINTS on both axes.
C6_MeanOfLastPoints ==
    (SmootherReady /\ Len(valid_points) >= 1) =>
        LET k == Len(valid_points)
            m == Min(k, NUM_POINTS)
            last == LastN(valid_points, NUM_POINTS)
        IN  /\ IsQuotient(self._xcoord, SumX(last), m)
            /\ IsQuotient(self._ycoord, SumY(last), m)
            /\ valid_points = Ramp(12) =>
                   /\ self._point_deque = [i \in 1..NUM_POINTS |-> <<i + 2, i + 2>>]
                   /\ self._xcoord = Float(15, 2)
                   /\ self._ycoord = Float(15, 2)
            /\ (k = NUM_POINTS + 1 /\ SubSeq(valid_points, 1, NUM_POINTS) = Zeros(NUM_POINTS)) =>
                   /\ IsQuotient(self._xcoord, valid_points[k][1], NUM_POINTS)
                   /\ IsQuotient(self._ycoord, valid_points[k][2], NUM_POINTS)

\* C6 witness: the ramp (1,1)..(12,12) has been pushed.
C6_Witness ==
    /\ SmootherReady
    /\ valid_points = Ramp(12)
    /\ self._xcoord = Float(15, 2)

\* C6 witness of the step scenario, reached as well under SpecScripted.
C6_StepReached ==
    /\ SmootherReady
    /\ Len(valid_points) = NUM_POINTS + 1
    /\ SubSeq(valid_points, 1, NUM_POINTS) = Zeros(NUM_POINTS)
    /\ valid_points[NUM_POINTS + 1] = <<3, 3>>
    /\ self._xcoord = Float(3, NUM_POINTS)

\* C7: with one callback dispatched at a time, the state a render observes
\* is a completed one: at most NUM_POINTS points, running sums equal to the
\* sums of the window, and, once the window holds a point, the position it
\* reads and draws the marker around is running sum / window length.
C7_RenderObservesCompleteUpdate ==
    FrameEvent =>
        /\ Len(self._point_deque) <= NUM_POINTS
        /\ self._running_xcoord = SumX(self._point_deque)
        /\ self._running_ycoord = SumY(self._point_deque)
        /\ Len(self._point_deque) >= 1 =>
              /\ IsQuotient(self._xcoord, self._running_xcoord, Len(self._point_deque))
              /\ IsQuotient(self._ycoord, self._running_ycoord, Len(self._point_deque))
              /\ Len(event.draw) = 1
              /\ event.draw[1].x = sub(self._xcoord, Float(GAZE_MARKER_SIZE, 2))
              /\ event.draw[1].y = sub(self._ycoord, Float(GAZE_MARKER_SIZE, 2))

\* C7 witness: a render after an eviction from a window of different points.
C7_Witness ==
    /\ FrameEvent
    /\ Len(valid_points) > NUM_POINTS
    /\ MixedWindow
    /\ self._xcoord.den # 1

\* C8: a render leaves the window, the running sums and the smoothed position
\* as they were.
C8_RenderLeavesSmoother ==
    [][ FrameEvent' => Smoother' = Smoother ]_vars

\* C8 witness: a render on a window whose average is not a whole number.
C8_Witness ==
    /\ FrameEvent
    /\ Len(self._point_deque) >= 2
    /\ self._xcoord.den # 1

\* r is n/d (d > 0) rounded to the nearest integer, ties to the even one.
IsRoundHalfEven(r, n, d) ==
    /\ 2 * Abs(n - r * d) <= d
    /\ 2 * Abs(n - r * d) = d => r % 2 = 0

\* C9: a sample without NaN is pushed as (round(width * xpos),
\* round(height * ypos)), also when that point lies outside the surface; on a
\* 1920 x 1080 surface (0.5, 0.5) is pushed as (960, 540).
C9_MappedPointPushedAsIs ==
    (ValidGazeEvent /\ SmootherReady) =>
        /\ event.error = ""
        /\ Len(self._point_deque) >= 1
        /\ LET point == self._point_deque[Len(self._point_deque)]
           IN  /\ IsRoundHalfEven(point[1], self._width * event.xpos.num, event.xpos.den)
               /\ IsRoundHalfEven(point[2], self._height * event.ypos.num, event.ypos.den)
               /\ (/\ self._width = 1920
                   /\ self._height = 1080
                   /\ event.xpos = Float(1, 2)
                   /\ event.ypos = Float(1, 2)) => point = <<960, 540>>

\* C9 witness: a point left of and below the surface is in the window, and
\* so is the smoothed position.
C9_Witness ==
    /\ ValidGazeEvent
    /\ SmootherReady
    /\ event.xpos.num < 0
    /\ self._point_deque = <<<<-22, 1282>>>>
    /\ self._xcoord = Float(-22, 1)
    /\ self._ycoord = Float(1282, 1)
    /\ self._height = 1080

\* The api can deliver samples: a handler is registered or the api runs.
Streaming == api.started \/ api.handlers # {}

\* C10: when the handler is registered and the api started, the dimensions
\* and the smoother's fields exist (with their initial values while no sample
\* has arrived); no sample meets a missing attribute; the dimensions never
\* change once set.
C10_DimensionsBeforeStreaming ==
    /\ [](Streaming =>
             /\ {"_width", "_height"} \subseteq DOMAIN self
             /\ SmootherReady
             /\ self._width \in Nat /\ self._height \in Nat
             /\ valid_points = <<>> =>
                    Smoother = << <<>>, 0, 0, Float(0, 1), Float(0, 1) >>)
    /\ [](event.error # "AttributeError")
    /\ [][ "_width" \in DOMAIN self =>
             /\ "_width" \in DOMAIN self'
             /\ self'._width = self._width
             /\ self'._height = self._height ]_vars

\* C10 witness: several samples have been mapped in a session.
C10_Witness ==
    /\ Streaming
    /\ ValidGazeEvent
    /\ Len(valid_points) >= 2
    /\ self._width = 1280

\* The render timer runs: the constructor has returned with the timer started.
TimerRunning == Constructed /\ "_imagetimer" \in DOMAIN self

\* The api delivers GAZE_IN_SCREEN samples to the handler.
GazeStreaming == api.started /\ "GAZE_IN_SCREEN" \in api.handlers

\* The two timelines alone, with a short stream: the constructor, the gaze
\* stream and the render timer.
CadenceGazeInScreenStream == DeliverGaze(Samples, MaxCadence)

NextCadence ==
    \/ TrackingWindow_init_board
    \/ TrackingWindow_init_smoother
    \/ Frontend_init
    \/ _setup_video_timer
    \/ CadenceGazeInScreenStream
    \/ VideoTimerTimeout

SpecCadence == Init /\ [][NextCadence]_vars

\* C11: neither timeline blocks the other. Whenever the timer runs a render
\* can fire, whatever ran last (a render or a sample) and however many samples
\* have arrived; whenever the stream is delivered a sample can be handled,
\* and a valid one pushed, whether or not a render has run since the last
\* sample.
C11_TimelinesIndependent ==
    /\ TimerRunning => ENABLED VideoTimerTimeout
    /\ GazeStreaming => ENABLED CadenceGazeInScreenStream
    /\ (GazeStreaming /\ Len(valid_points) < MaxCadence) =>
           ENABLED (CadenceGazeInScreenStream /\ valid_points' # valid_points)

\* C11 witness: a render has just run after two samples, and more samples
\* can still be pushed.
C11_Witness ==
    /\ TimerRunning
    /\ GazeStreaming
    /\ FrameEvent
    /\ Len(self._point_deque) = 2
    /\ Len(valid_points) < MaxCadence

----------------------------------------------------------------------------
(* The two frontends: requests, responses and shutdown (SpecExamples) *)

\* name occurs among calls
Requests(calls, name) == \E i \in 1..Len(calls) : calls[i] = name

\* first is requested before second
Precedes(calls, first, second) ==
    \E i, j \in 1..Len(calls) :
        i < j /\ calls[i] = first /\ calls[j] = second

Callback(cb) == event.cb = cb

\* The GAZE_IN_IMAGE sample received last, when there is one.
LastImageSample == api.gaze_in_image[1]

\* C12: in the camera gaze example the stored gaze marker coordinates never
\* contain NaN, whatever samples the gaze-in-image handler has received.
C12_GazeCoordinatesNeverNaN ==
    IsGazeViewer =>
        /\ ~isnan(self._gaze_coordinates[1])
        /\ ~isnan(self._gaze_coordinates[2])

C14_StartupFollowsResponses ==
    IsTrackingWindow =>
        /\ \A name \in {"set_stream_control", "set_event_control",
                        "start_camera_capture", "start_log_session"} :
              Requests(event.calls, name) <=>
                  (Callback("_handle_connect_response") /\ event.arg = "")
        /\ Requests(event.calls, "register_screen_board") <=>
              (Callback("_handle_camera_start_response") /\ event.arg = "")
        /\ ( /\ \/ Callback("_handle_connect_response")
                \/ Callback("_handle_camera_start_response")
             /\ event.arg # "" ) => event.calls = <<>>

\* C14 witness: a camera start response without error has requested the
\* registration of the screen board, its own request answered.
C14_Witness ==
    /\ IsTrackingWindow
    /\ Callback("_handle_camera_start_response")
    /\ event.arg = ""
    /\ event.calls = <<"register_screen_board">>
    /\ api.pending.register_screen_board = 1
    /\ api.pending.start_camera_capture = 0

\* C15: a screen registration response requests start_screen_tracking, once,
\* exactly when it carries no error; with an error it requests nothing.
C15_TrackingStartedIffRegistered ==
    (IsTrackingWindow /\ Callback("_handle_screen_registered_response")) =>
        IF event.arg = ""
        THEN event.calls = <<"start_screen_tracking">>
        ELSE event.calls = <<>>

\* C15 witness: a registration response with an error, which started nothing.
C15_Witness ==
    /\ IsTrackingWindow
    /\ Callback("_handle_screen_registered_response")
    /\ event.arg = "error"
    /\ event.calls = <<>>

\* C16: a Quick Start or a calibration invoked from the window requests
\* stop_screen_tracking before it starts the procedure; a PROCEDURE_ENDED
\* event requests start_screen_tracking and then restores the full screen
\* window; an event of another type makes no request and changes neither the
\* window nor the api.
C16_ProcedureBrackets ==
    [][ IsTrackingWindow =>
          /\ event'.cb = "_quickstart" =>
                /\ Precedes(event'.calls, "stop_screen_tracking",
                            "quick_start_gui")
                /\ ~Precedes(event'.calls, "quick_start_gui",
                             "stop_screen_tracking")
          /\ event'.cb = "_calibrate" =>
                /\ Precedes(event'.calls, "stop_screen_tracking",
                            "start_calibration_gui")
                /\ ~Precedes(event'.calls, "start_calibration_gui",
                             "stop_screen_tracking")
          /\ (event'.cb = "_handle_event_stream"
                /\ event'.arg = "PROCEDURE_ENDED") =>
                /\ event'.calls = <<"start_screen_tracking", "showFullScreen">>
                /\ self'.windowState = "FullScreen"
          /\ (event'.cb = "_handle_event_stream"
                /\ event'.arg # "PROCEDURE_ENDED") =>
                /\ event'.calls = <<>>
                /\ self' = self
                /\ api' = api ]_vars

\* C16 witness: an event of another type arrived while the window was
\* minimized for a procedure; the window is still minimized.
C16_Witness ==
    /\ IsTrackingWindow
    /\ Callback("_handle_event_stream")
    /\ event.arg = "PROCEDURE_STARTED"
    /\ self.windowState = "Minimized"

\* C17: a shutdown of the frontend makes its requests in a fixed order, the
\* api's shutdown last: stop_screen_tracking, stop_camera_capture,
\* stop_log_session, shutdown in the screen tracking example;
\* stop_video_stream, stop_camera_capture, shutdown in the camera gaze
\* example; nothing is requested after the shutdown in the same call.
C17_ShutdownOrder ==
    /\ Requests(event.calls, "shutdown") =>
          /\ event.calls[Len(event.calls)] = "shutdown"
          /\ \A i \in 1..(Len(event.calls) - 1) : event.calls[i] # "shutdown"
    /\ (IsTrackingWindow /\ Callback("closeEvent")) =>
          event.calls = <<"stop_screen_tracking", "stop_camera_capture",
                          "stop_log_session", "shutdown">>
    /\ ( /\ IsGazeViewer
         /\ \/ Callback("closeEvent")
            \/ Callback("_handle_camera_start_response") /\ event.arg # "" ) =>
          event.calls = <<"stop_video_stream", "stop_camera_capture",
                          "shutdown">>

\* C17 witness: the tracking window was closed and the api is shut down.
C17_Witness ==
    /\ IsTrackingWindow
    /\ Callback("closeEvent")
    /\ api.stopped
    /\ Len(event.calls) = 4

====
